---------------------------- MODULE Spec2Model ----------------------------
(***************************************************************************)
(* A model of the ring buffer of src/ringBuff.go (package ring, type Buff): *)
(* a fixed array of slots addressed by monotonically increasing IDs, with   *)
(* the cursors oldest and newest.  Every public method takes rb.mux for its *)
(* whole body, so under Spec each call is one atomic step.                  *)
(***************************************************************************)
EXTENDS Integers, Sequences, FiniteSets, TLC

\* Largest capacity NewBuff is called with.
MaxCap == 3

\* Largest ID the buffer is driven to (newest never exceeds it).
MaxId == 6

\* The payloads callers store (interface{} values); Nil is Go's nil.
Nil == "nil"

Vals == {"A", "B"}

InVals == Vals \cup {Nil}

\* Ghost marker: no value is on record for an ID.
Unset == "unset"

\* The error value nil, and the errors the methods build with errors.Errorf.
NoErr == "ok"

StaleId == "StaleId"

IdTooOld == "IdTooOld"

IdTooNew == "IdTooNew"

IndexOutOfBounds == "IndexOutOfBounds"

RequestedIdTooNew == "RequestedIdTooNew"

\* Largest capacity and largest ID argument in the runs with several goroutines.
CMaxCap == 2

CMaxId == 3

\* The goroutines calling into one shared Buff, and the value each one writes.
Writers == {"w1", "w2"}

Readers == {"r1", "r2"}

Threads == Writers \cup Readers

ValOf(t) == IF t = "w1" THEN "A" ELSE "B"

None == "none"

\* n0 when no batch of pushers is being followed; <<n>> when one is.
NoBatch == <<>>

\* The IDs the buffer can hold, and the IDs a lookup can be asked for.
Ids == 0..MaxId

IdArgs == -2..(MaxId + 1)

VARIABLES
    rb,        \* the Buff: [buff, count, oldest, newest]
    last,      \* the last call: its name, arguments and what it returned
    pushOnly,  \* ghost: no UpsertById call has been made yet
    npush,     \* ghost: the number of Push calls, while pushOnly
    log,       \* ghost: the values pushed, while pushOnly and npush <= count
    assigned,  \* ghost: per live ID, the value last given to it
    gaps,      \* ghost: live IDs filled as a gap and not upserted since
    mux,       \* rb.mux, the sync.RWMutex
    th,        \* per goroutine: where it stands in the call it is making
    committed, \* ghost: the buffer as the last completed writer left it
    n0         \* ghost: <<newest>> when a batch of pushers was started

svars == <<last, pushOnly, npush, log, assigned, gaps>>

cvars == <<mux, th, committed, n0>>

vars == <<rb, last, pushOnly, npush, log, assigned, gaps, mux, th, committed, n0>>

--------------------------------------------------------------------------
(* Go's integer remainder: truncated, the sign follows the dividend. *)
GoMod(a, b) == IF a >= 0 THEN a % b ELSE -((-a) % b)

(* rb.buff[i % rb.count] panics: division by zero, or index out of range. *)
IndexPanics(b, i) == b.count = 0 \/ GoMod(i, b.count) \notin DOMAIN b.buff

(* What a call hands back: a value, a list, a number, an error with the *)
(* numbers formatted into its message, or a panic.                      *)
NoRes == [val |-> Nil, list |-> <<>>, num |-> 0, err |-> NoErr,
          eargs |-> <<>>, panic |-> FALSE]

Panic == [NoRes EXCEPT !.panic = TRUE]

(* make([]interface{}, n) panics for a negative length. *)
NewBuffPanics(n) == n < 0

NewBuff(n) ==
    [buff |-> [i \in 0..(n - 1) |-> Nil], count |-> n, oldest |-> 0, newest |-> -1]

GetNewestId(b) == [NoRes EXCEPT !.num = b.newest]

GetOldestId(b) == [NoRes EXCEPT !.num = b.oldest]

BuffLen(b) == [NoRes EXCEPT !.num = b.count]

(* next with the eviction test off by one: oldest advances one push late. *)
next_LateEvict(b) ==
    LET n == [b EXCEPT !.newest = @ + 1]
    IN  IF n.newest > n.count THEN [n EXCEPT !.oldest = @ + 1] ELSE n

(* next wrapping the cursor like a plain ring index: newest = (newest+1) % count. *)
next_WrapNewest(b) ==
    LET n == [b EXCEPT !.newest = GoMod(@ + 1, b.count)]
    IN  IF n.newest >= n.count THEN [n EXCEPT !.oldest = @ + 1] ELSE n

next(b) ==
    LET n == [b EXCEPT !.newest = @ + 1]
    IN  IF n.newest >= n.count THEN [n EXCEPT !.oldest = @ + 1] ELSE n

pushPanics(b) == IndexPanics(next(b), next(b).newest)

(* push writing the slot after the one newest maps to. *)
push_WrongSlot(b, val) ==
    LET n == next(b)
    IN  IF IndexPanics(n, n.newest + 1) THEN n
        ELSE [n EXCEPT !.buff[GoMod(n.newest + 1, n.count)] = val]

push(b, val) ==
    LET n == next(b)
    IN  IF IndexPanics(n, n.newest) THEN n
        ELSE [n EXCEPT !.buff[GoMod(n.newest, n.count)] = val]

Push(b, val) ==
    [rb |-> push(b, val), res |-> IF pushPanics(b) THEN Panic ELSE NoRes]

(* The fill loop advancing the cursors without clearing the slots it passes. *)
RECURSIVE fill_NoClear(_, _, _)
fill_NoClear(b, i, newId) ==
    IF i > newId THEN [rb |-> b, panic |-> FALSE]
    ELSE fill_NoClear(next(b), i + 1, newId)

(* The loop of UpsertById: for i := firstEmptyID; i <= newId; i++ { push(nil) } *)
RECURSIVE fill(_, _, _)
fill(b, i, newId) ==
    IF i > newId THEN [rb |-> b, panic |-> FALSE]
    ELSE IF pushPanics(b) THEN [rb |-> push(b, Nil), panic |-> TRUE]
    ELSE fill(push(b, Nil), i + 1, newId)

(* UpsertById without the test for an ID older than oldest. *)
UpsertById_NoStaleCheck(b, newId, val) ==
    LET f == fill(b, b.newest + 1, newId)
    IN  IF f.panic \/ IndexPanics(f.rb, newId)
        THEN [rb |-> f.rb, res |-> Panic]
        ELSE [rb |-> [f.rb EXCEPT !.buff[GoMod(newId, f.rb.count)] = val],
              res |-> NoRes]

(* UpsertById whose loop stops one short: for i := firstEmptyID; i < newId. *)
UpsertById_ShortFill(b, newId, val) ==
    IF b.oldest > newId
    THEN [rb |-> b, res |-> [NoRes EXCEPT !.err = StaleId]]
    ELSE LET f == fill(b, b.newest + 1, newId - 1)
         IN  IF f.panic \/ IndexPanics(f.rb, newId)
             THEN [rb |-> f.rb, res |-> Panic]
             ELSE [rb |-> [f.rb EXCEPT !.buff[GoMod(newId, f.rb.count)] = val],
                   res |-> NoRes]

(* UpsertById storing the value one slot off: index := (newId + 1) % rb.count. *)
UpsertById_WrongSlot(b, newId, val) ==
    IF b.oldest > newId
    THEN [rb |-> b, res |-> [NoRes EXCEPT !.err = StaleId]]
    ELSE LET f == fill(b, b.newest + 1, newId)
         IN  IF f.panic \/ IndexPanics(f.rb, newId + 1)
             THEN [rb |-> f.rb, res |-> Panic]
             ELSE [rb |-> [f.rb EXCEPT !.buff[GoMod(newId + 1, f.rb.count)] = val],
                   res |-> NoRes]

UpsertById(b, newId, val) ==
    IF b.oldest > newId
    THEN [rb |-> b, res |-> [NoRes EXCEPT !.err = StaleId]]
    ELSE LET f == fill(b, b.newest + 1, newId)
         IN  IF f.panic \/ IndexPanics(f.rb, newId)
             THEN [rb |-> f.rb, res |-> Panic]
             ELSE [rb |-> [f.rb EXCEPT !.buff[GoMod(newId, f.rb.count)] = val],
                   res |-> NoRes]

Get(b) ==
    IF IndexPanics(b, b.newest) THEN Panic
    ELSE [NoRes EXCEPT !.val = b.buff[GoMod(b.newest, b.count)]]

(* getById without the lower bound test. *)
getById_NoOldCheck(b, id) ==
    IF id > b.newest
    THEN [NoRes EXCEPT !.err = IdTooNew, !.eargs = <<id, b.oldest>>]
    ELSE IF IndexPanics(b, id) THEN Panic
    ELSE [NoRes EXCEPT !.val = b.buff[GoMod(id, b.count)]]

(* getById with both bound tests off by one: <= and >= . *)
getById_OffByOne(b, id) ==
    IF id <= b.oldest
    THEN [NoRes EXCEPT !.err = IdTooOld, !.eargs = <<id, b.newest>>]
    ELSE IF id >= b.newest
    THEN [NoRes EXCEPT !.err = IdTooNew, !.eargs = <<id, b.oldest>>]
    ELSE IF IndexPanics(b, id) THEN Panic
    ELSE [NoRes EXCEPT !.val = b.buff[GoMod(id, b.count)]]

getById(b, id) ==
    IF id < b.oldest
    THEN [NoRes EXCEPT !.err = IdTooOld, !.eargs = <<id, b.newest>>]
    ELSE IF id > b.newest
    THEN [NoRes EXCEPT !.err = IdTooNew, !.eargs = <<id, b.oldest>>]
    ELSE IF IndexPanics(b, id) THEN Panic
    ELSE [NoRes EXCEPT !.val = b.buff[GoMod(id, b.count)]]

GetById(b, id) == getById(b, id)

(* GetByIndex with the lower test off by one: i <= 0. *)
GetByIndex_OffByOne(b, i) ==
    IF i <= 0 \/ i >= b.count
    THEN [NoRes EXCEPT !.err = IndexOutOfBounds, !.eargs = <<i>>]
    ELSE [NoRes EXCEPT !.val = b.buff[i]]

GetByIndex(b, i) ==
    IF i < 0 \/ i >= b.count
    THEN [NoRes EXCEPT !.err = IndexOutOfBounds, !.eargs = <<i>>]
    ELSE [NoRes EXCEPT !.val = b.buff[i]]

(* GetNewerById without the clamp of an ID below oldest. *)
GetNewerById_NoClamp(b, id0) ==
    IF id0 > b.newest
    THEN [NoRes EXCEPT !.err = RequestedIdTooNew, !.eargs = <<id0, b.newest>>]
    ELSE [NoRes EXCEPT
            !.list = [k \in 1..(b.newest - id0) |-> getById(b, id0 + k).val]]

(* GetNewerById rejecting the newest ID itself: id >= rb.newest. *)
GetNewerById_Strict(b, id0) ==
    LET id == IF id0 < b.oldest THEN b.oldest - 1 ELSE id0
    IN  IF id >= b.newest
        THEN [NoRes EXCEPT !.err = RequestedIdTooNew, !.eargs = <<id, b.newest>>]
        ELSE [NoRes EXCEPT
                !.list = [k \in 1..(b.newest - id) |-> getById(b, id + k).val]]

GetNewerById(b, id0) ==
    LET id == IF id0 < b.oldest THEN b.oldest - 1 ELSE id0
    IN  IF id > b.newest
        THEN [NoRes EXCEPT !.err = RequestedIdTooNew, !.eargs = <<id, b.newest>>]
        ELSE [NoRes EXCEPT
                !.list = [k \in 1..(b.newest - id) |-> getById(b, id + k).val]]

--------------------------------------------------------------------------
(* A call on record: newest0 is rb.newest when the call began. *)
Call(op, id, val, res) ==
    [op |-> op, id |-> id, val |-> val, res |-> res, newest0 |-> rb.newest]

Crashed == last.res.panic

Live(b, i) == b.oldest <= i /\ i <= b.newest

(* Ghost bookkeeping: the IDs a mutation covered, dropped once evicted. *)
Record(b2, written, v) ==
    [i \in Ids |-> IF i < b2.oldest THEN Unset
                   ELSE IF i = written THEN v
                   ELSE assigned[i]]

(* The zero sync.RWMutex: w is the writer inside Lock (past rw.w), entered  *)
(* tells whether it is past the wait for the readers, r are the readers     *)
(* holding RLock, rwait the readers a writer keeps waiting in RLock.        *)
FreeMux == [w |-> None, entered |-> FALSE, r |-> {}, rwait |-> {}]

(* A goroutine outside any call: op, id, val the call and its arguments, i  *)
(* the loop counter of UpsertById, res the result; ghost: at is the         *)
(* committed buffer when a read ran, got the ID a Push stored its value at. *)
IdleTh == [pc |-> "idle", op |-> None, id |-> 0, val |-> Nil, i |-> 0,
           res |-> NoRes, at |-> NewBuff(0), got |-> -1]

(* The buffer used by one caller at a time: no goroutine is in a call. *)
Unshared ==
    /\ mux = FreeMux
    /\ th = [t \in Threads |-> IdleTh]
    /\ committed = rb
    /\ n0 = NoBatch

Init ==
    /\ \E n \in 1..MaxCap : rb = NewBuff(n)
    /\ last = [op |-> "NewBuff", id |-> 0, val |-> Nil, res |-> NoRes, newest0 |-> -1]
    /\ pushOnly = TRUE
    /\ npush = 0
    /\ log = <<>>
    /\ assigned = [i \in Ids |-> Unset]
    /\ gaps = {}
    /\ Unshared

(* Construction with any capacity a caller may pass, non-positive included. *)
InitCtor ==
    /\ \E n \in -1..MaxCap :
         /\ rb = NewBuff(n)
         /\ last = [op |-> "NewBuff", id |-> n, val |-> Nil,
                    res |-> IF NewBuffPanics(n) THEN Panic ELSE NoRes,
                    newest0 |-> -1]
    /\ pushOnly = TRUE
    /\ npush = 0
    /\ log = <<>>
    /\ assigned = [i \in Ids |-> Unset]
    /\ gaps = {}
    /\ Unshared

DoPush(v) ==
    /\ ~Crashed
    /\ rb.newest < MaxId
    /\ \E r \in {Push(rb, v)} :
           /\ rb' = r.rb
           /\ last' = Call("Push", rb.newest + 1, v, r.res)
           /\ assigned' = Record(r.rb, rb.newest + 1, v)
           /\ gaps' = {g \in gaps : g >= r.rb.oldest}
    /\ npush' = IF pushOnly THEN npush + 1 ELSE npush
    /\ log' = IF pushOnly /\ npush < rb.count THEN Append(log, v) ELSE <<>>
    /\ UNCHANGED pushOnly
    /\ UNCHANGED cvars

DoUpsertById(id, v) ==
    /\ ~Crashed
    /\ \E r \in {UpsertById(rb, id, v)} :
       LET filled == IF r.res.err = NoErr THEN (rb.newest + 1)..(id - 1) ELSE {}
       IN  /\ rb' = r.rb
           /\ last' = Call("UpsertById", id, v, r.res)
           /\ assigned' =
                IF r.res.err = NoErr
                THEN [i \in Ids |-> IF i < r.rb.oldest THEN Unset
                                    ELSE IF i = id THEN v
                                    ELSE IF i \in filled THEN Nil
                                    ELSE assigned[i]]
                ELSE assigned
           /\ gaps' = {g \in (gaps \cup filled) \ {id} : g >= r.rb.oldest}
    /\ pushOnly' = FALSE
    /\ npush' = 0
    /\ log' = <<>>
    /\ UNCHANGED cvars

Read(op, id, res) ==
    /\ ~Crashed
    /\ last' = Call(op, id, Nil, res)
    /\ UNCHANGED <<rb, pushOnly, npush, log, assigned, gaps>>
    /\ UNCHANGED cvars

DoGet == Read("Get", 0, Get(rb))

DoGetById(id) == Read("GetById", id, GetById(rb, id))

DoGetByIndex(i) == Read("GetByIndex", i, GetByIndex(rb, i))

DoGetNewerById(id) == Read("GetNewerById", id, GetNewerById(rb, id))

DoGetOldestId == Read("GetOldestId", 0, GetOldestId(rb))

DoGetNewestId == Read("GetNewestId", 0, GetNewestId(rb))

DoLen == Read("Len", 0, BuffLen(rb))

Next ==
    \/ \E v \in InVals : DoPush(v)
    \/ \E id \in (rb.oldest - 1)..MaxId, v \in InVals : DoUpsertById(id, v)
    \/ DoGet
    \/ \E id \in (rb.oldest - 1)..(rb.newest + 1) : DoGetById(id)
    \/ \E i \in -1..rb.count : DoGetByIndex(i)
    \/ \E id \in (rb.oldest - 2)..(rb.newest + 1) : DoGetNewerById(id)
    \/ DoGetOldestId
    \/ DoGetNewestId
    \/ DoLen

Spec == Init /\ [][Next]_vars

SpecCtor == InitCtor /\ [][Next]_vars

--------------------------------------------------------------------------
(* Several goroutines on one shared Buff.  A call is a run of steps: taking *)
(* rb.mux, the statements of the method body, and the deferred release.     *)

(* A writer mutex that lets a second writer in. *)
CanLock_Always(m) == TRUE

(* rw.w.Lock(): one writer at a time gets past the writer mutex. *)
CanLock(m) == m.w = None

(* Lock() then waits until the readers holding RLock have left. *)
WriterMayEnter(m) == m.r = {}

(* A read lock that does not wait for the writer. *)
CanRLock_Always(m) == TRUE

(* RLock() goes through unless a writer is inside Lock or holds the lock. *)
CanRLock(m) == m.w = None

(* What a read method returns on buffer b. *)
ReadOp(b, op, id) ==
    CASE op = "Get" -> Get(b)
      [] op = "GetById" -> GetById(b, id)
      [] op = "GetByIndex" -> GetByIndex(b, id)
      [] op = "GetNewerById" -> GetNewerById(b, id)
      [] op = "GetOldestId" -> GetOldestId(b)
      [] op = "GetNewestId" -> GetNewestId(b)
      [] OTHER -> BuffLen(b)

ReadCalls ==
    ({"Get", "GetOldestId", "GetNewestId", "Len"} \X {0})
        \cup ({"GetById", "GetNewerById"} \X (0..CMaxId))
        \cup ({"GetByIndex"} \X {0, 1})

(* An unrecovered panic ends the program: no goroutine runs on. *)
CCrashed == \E t \in Threads : th[t].pc = "panicked"

Step(t, pc) == ~CCrashed /\ th[t].pc = pc

(* The shared buffer right after construction, used by several goroutines. *)
InitConc ==
    /\ \E n \in 1..CMaxCap : rb = NewBuff(n)
    /\ last = [op |-> "NewBuff", id |-> 0, val |-> Nil, res |-> NoRes, newest0 |-> -1]
    /\ pushOnly = TRUE
    /\ npush = 0
    /\ log = <<>>
    /\ assigned = [i \in Ids |-> Unset]
    /\ gaps = {}
    /\ Unshared

(* A writer calls Push or UpsertById; all that matters of the call until *)
(* it holds the lock is that it wants the lock.                          *)
CallWrite(t) ==
    /\ Step(t, "idle")
    /\ th' = [th EXCEPT ![t] = [IdleTh EXCEPT !.pc = "Lock", !.got = th[t].got]]
    /\ UNCHANGED <<rb, svars, mux, committed, n0>>

(* rb.mux.Lock(), first half: past the writer mutex, new readers now wait. *)
Lock(t) ==
    /\ Step(t, "Lock")
    /\ CanLock(mux)
    /\ mux' = [mux EXCEPT !.w = t]
    /\ th' = [th EXCEPT ![t].pc = "LockWait"]
    /\ UNCHANGED <<rb, svars, committed, n0>>

(* rb.mux.Lock(), second half: the readers have left; the body that starts *)
(* is that of Push(ValOf(t)) ...                                           *)
EnterPush(t) ==
    /\ Step(t, "LockWait")
    /\ WriterMayEnter(mux)
    /\ mux' = [mux EXCEPT !.entered = TRUE]
    /\ th' = [th EXCEPT ![t].pc = "next", ![t].op = "Push", ![t].val = ValOf(t)]
    /\ UNCHANGED <<rb, svars, committed, n0>>

(* ... or that of UpsertById(id, ValOf(t)). *)
EnterUpsertById(t, id) ==
    /\ Step(t, "LockWait")
    /\ WriterMayEnter(mux)
    /\ mux' = [mux EXCEPT !.entered = TRUE]
    /\ th' = [th EXCEPT ![t].pc = "check", ![t].op = "UpsertById",
                        ![t].id = id, ![t].val = ValOf(t)]
    /\ UNCHANGED <<rb, svars, committed, n0>>

(* push: rb.next() *)
PushNext(t) ==
    /\ Step(t, "next")
    /\ rb' = next(rb)
    /\ th' = [th EXCEPT ![t].pc = "store",
                        ![t].got = IF n0 = NoBatch THEN -1 ELSE next(rb).newest]
    /\ UNCHANGED <<svars, mux, committed, n0>>

(* push: rb.buff[rb.newest%rb.count] = val *)
PushStore(t) ==
    /\ Step(t, "store")
    /\ IF IndexPanics(rb, rb.newest)
       THEN /\ th' = [th EXCEPT ![t].pc = "Unlock", ![t].res = Panic]
            /\ rb' = rb
       ELSE /\ th' = [th EXCEPT ![t].pc = "Unlock"]
            /\ rb' = [rb EXCEPT !.buff[GoMod(rb.newest, rb.count)] = th[t].val]
    /\ UNCHANGED <<svars, mux, committed, n0>>

(* UpsertById: the stale test, then firstEmptyID := rb.newest + 1 *)
UpsertCheck(t) ==
    /\ Step(t, "check")
    /\ th' = IF rb.oldest > th[t].id
             THEN [th EXCEPT ![t].pc = "Unlock",
                             ![t].res = [NoRes EXCEPT !.err = StaleId]]
             ELSE [th EXCEPT ![t].pc = "loop", ![t].i = rb.newest + 1]
    /\ UNCHANGED <<rb, svars, mux, committed, n0>>

(* UpsertById: the loop test and, inside the loop, rb.next() of push(nil); *)
(* past the loop, rb.buff[newId%rb.count] = val                            *)
UpsertLoop(t) ==
    /\ Step(t, "loop")
    /\ IF th[t].i <= th[t].id
       THEN /\ rb' = next(rb)
            /\ th' = [th EXCEPT ![t].pc = "fill"]
       ELSE IF IndexPanics(rb, th[t].id)
       THEN /\ rb' = rb
            /\ th' = [th EXCEPT ![t].pc = "Unlock", ![t].res = Panic]
       ELSE /\ rb' = [rb EXCEPT !.buff[GoMod(th[t].id, rb.count)] = th[t].val]
            /\ th' = [th EXCEPT ![t].pc = "Unlock"]
    /\ UNCHANGED <<svars, mux, committed, n0>>

(* UpsertById: the store of push(nil), then i++ *)
UpsertFill(t) ==
    /\ Step(t, "fill")
    /\ IF IndexPanics(rb, rb.newest)
       THEN /\ rb' = rb
            /\ th' = [th EXCEPT ![t].pc = "Unlock", ![t].res = Panic]
       ELSE /\ rb' = [rb EXCEPT !.buff[GoMod(rb.newest, rb.count)] = Nil]
            /\ th' = [th EXCEPT ![t].pc = "loop", ![t].i = @ + 1]
    /\ UNCHANGED <<svars, mux, committed, n0>>

(* defer rb.mux.Unlock(): the readers kept waiting get the lock, the call *)
(* returns (or its panic goes on to end the program).                     *)
Unlock(t) ==
    /\ Step(t, "Unlock")
    /\ mux' = [w |-> IF mux.w = t THEN None ELSE mux.w, entered |-> FALSE,
               r |-> mux.r \cup mux.rwait, rwait |-> {}]
    /\ th' = [th EXCEPT ![t] = [IdleTh EXCEPT
                 !.pc = IF th[t].res.panic THEN "panicked" ELSE "idle",
                 !.val = IF n0 = NoBatch THEN Nil ELSE th[t].val,
                 !.got = th[t].got]]
    /\ committed' = rb
    /\ UNCHANGED <<rb, svars, n0>>

(* A reader calls one of the read methods; all that matters of the call *)
(* until it holds the lock is that it wants the read lock.              *)
CallRead(t) ==
    /\ Step(t, "idle")
    /\ th' = [th EXCEPT ![t].pc = "RLock"]
    /\ UNCHANGED <<rb, svars, mux, committed, n0>>

(* rb.mux.RLock(): through at once, or kept waiting by a writer. *)
RLock(t) ==
    /\ Step(t, "RLock")
    /\ IF CanRLock(mux)
       THEN /\ mux' = [mux EXCEPT !.r = @ \cup {t}]
            /\ th' = [th EXCEPT ![t].pc = "body"]
       ELSE /\ mux' = [mux EXCEPT !.rwait = @ \cup {t}]
            /\ th' = [th EXCEPT ![t].pc = "RLockWait"]
    /\ UNCHANGED <<rb, svars, committed, n0>>

(* rb.mux.RLock(): woken by the writer's Unlock. *)
RLockWake(t) ==
    /\ Step(t, "RLockWait")
    /\ t \in mux.r
    /\ th' = [th EXCEPT ![t].pc = "body"]
    /\ UNCHANGED <<rb, svars, mux, committed, n0>>

(* The body of the read method op, called with id. *)
ReadBody(t, op, id) ==
    /\ Step(t, "body")
    /\ th' = [th EXCEPT ![t].pc = "RUnlock", ![t].op = op, ![t].id = id,
                        ![t].res = ReadOp(rb, op, id),
                        ![t].at = committed]
    /\ UNCHANGED <<rb, svars, mux, committed, n0>>

(* defer rb.mux.RUnlock(), and the return (or the panic going on). *)
RUnlock(t) ==
    /\ Step(t, "RUnlock")
    /\ mux' = [mux EXCEPT !.r = @ \ {t}]
    /\ th' = [th EXCEPT ![t] = [IdleTh EXCEPT
                 !.pc = IF th[t].res.panic THEN "panicked" ELSE "idle"]]
    /\ UNCHANGED <<rb, svars, committed, n0>>

WriterStep(t) ==
    \/ CallWrite(t)
    \/ Lock(t)
    \/ PushNext(t)
    \/ PushStore(t)
    \/ UpsertCheck(t)
    \/ UpsertLoop(t)
    \/ UpsertFill(t)
    \/ Unlock(t)

ReaderStep(t) ==
    \/ CallRead(t)
    \/ RLock(t)
    \/ RLockWake(t)
    \/ RUnlock(t)

NextConc ==
    \/ \E t \in Writers : WriterStep(t)
    \/ \E t \in Writers : rb.newest < CMaxId /\ EnterPush(t)
    \/ \E t \in Writers, id \in 0..CMaxId : EnterUpsertById(t, id)
    \/ \E t \in Readers : ReaderStep(t)
    \/ \E t \in Readers, c \in ReadCalls : ReadBody(t, c[1], c[2])

SpecConc == InitConc /\ [][NextConc]_vars

(* The same runs under the scheduling Go gives: a goroutine that can take *)
(* its next step takes it, and a writer waiting on the writer mutex gets  *)
(* it in the end (sync.Mutex hands the lock to a starved waiter).  Making *)
(* a call is up to the caller.                                            *)
Progress(t) ==
    \/ EnterPush(t)
    \/ \E id \in 0..CMaxId : EnterUpsertById(t, id)
    \/ PushNext(t)
    \/ PushStore(t)
    \/ UpsertCheck(t)
    \/ UpsertLoop(t)
    \/ UpsertFill(t)
    \/ Unlock(t)
    \/ RLock(t)
    \/ RLockWake(t)
    \/ \E c \in ReadCalls : ReadBody(t, c[1], c[2])
    \/ RUnlock(t)

Fairness ==
    \A t \in Threads : WF_vars(Progress(t)) /\ SF_vars(Lock(t))

SpecConcFair == InitConc /\ [][NextConc]_vars /\ Fairness

(* K goroutines each make one Push on a buffer that m sequential pushes *)
(* have filled so far.                                                  *)
RECURSIVE Prefill(_, _)
Prefill(b, m) == IF m = 0 THEN b ELSE Prefill(push(b, Nil), m - 1)

K == Cardinality(Writers)

InitPushers ==
    /\ \E n \in 1..CMaxCap, m \in 0..(CMaxId + 1 - K) : rb = Prefill(NewBuff(n), m)
    /\ last = [op |-> "NewBuff", id |-> 0, val |-> Nil, res |-> NoRes, newest0 |-> -1]
    /\ pushOnly = TRUE
    /\ npush = 0
    /\ log = <<>>
    /\ assigned = [i \in Ids |-> Unset]
    /\ gaps = {}
    /\ mux = FreeMux
    /\ th = [t \in Threads |-> IdleTh]
    /\ committed = rb
    /\ n0 = <<rb.newest>>

NextPushers ==
    \E t \in Writers :
        \/ th[t].got = -1 /\ CallWrite(t)
        \/ Lock(t)
        \/ EnterPush(t)
        \/ PushNext(t)
        \/ PushStore(t)
        \/ Unlock(t)

SpecPushers == InitPushers /\ [][NextPushers]_vars

--------------------------------------------------------------------------
(* The value v returned with a nil error. *)
Ok(v) == [NoRes EXCEPT !.val = v]

Retained(b) == b.newest - b.oldest + 1

\* C1: in every state reached by Push and UpsertById calls, successful or
\* failing, 0 <= newest - oldest + 1 <= capacity: oldest never exceeds
\* newest + 1 and at most capacity IDs are retained.
C1_RetainedWithinCapacity ==
    /\ 0 <= Retained(rb)
    /\ Retained(rb) <= rb.count

\* C1 witness: a full, wrapped buffer right after a failing UpsertById.
C1_Witness ==
    /\ last.op = "UpsertById"
    /\ last.res.err = StaleId
    /\ rb.oldest > 0
    /\ Retained(rb) = rb.count

\* C2: after N Push calls on a new buffer, 1 <= N <= capacity, GetOldestId is
\* 0, GetNewestId is N-1 and GetById(i) returns the i-th pushed value, without
\* error, for every i in [0, N).
C2_PushesUpToCapacity ==
    (pushOnly /\ 1 <= npush /\ npush <= rb.count) =>
        /\ GetOldestId(rb).num = 0
        /\ GetNewestId(rb).num = npush - 1
        /\ Len(log) = npush
        /\ \A i \in 0..(npush - 1) : GetById(rb, i) = Ok(log[i + 1])

\* C2 witness: three pushes of A, B, A have filled a buffer of capacity 3.
C2_Witness ==
    /\ pushOnly
    /\ last.op = "Push"
    /\ rb.count = 3
    /\ npush = 3
    /\ log = <<"A", "B", "A">>

\* C3: after N Push calls on a new buffer, N > capacity, GetNewestId is N-1,
\* GetOldestId is N - capacity, and GetById(id) fails as too old for every
\* id < oldest.
C3_PushesPastCapacity ==
    (pushOnly /\ npush > rb.count) =>
        /\ GetNewestId(rb).num = npush - 1
        /\ GetOldestId(rb).num = npush - rb.count
        /\ \A id \in IdArgs :
             id < npush - rb.count => GetById(rb, id).err = IdTooOld

\* C3 witness: five pushes into a buffer of capacity 2 have evicted IDs 0..2.
C3_Witness ==
    /\ pushOnly
    /\ last.op = "Push"
    /\ rb.count = 2
    /\ npush = 5
    /\ rb.oldest = 3

\* C4: in any reachable state UpsertById(id, v) with id < oldest returns the
\* stale-ID error and leaves oldest, newest and every slot unchanged.
C4_StaleUpsertRejected ==
    \A id \in IdArgs, v \in InVals :
        id < rb.oldest =>
            \A r \in {UpsertById(rb, id, v)} :
                /\ r.res = [NoRes EXCEPT !.err = StaleId]
                /\ r.rb = rb

\* C4 witness: an UpsertById of an evicted ID has just failed on a buffer
\* that holds values.
C4_Witness ==
    /\ last.op = "UpsertById"
    /\ last.id >= 0
    /\ last.id < rb.oldest
    /\ last.res.err = StaleId
    /\ \E i \in DOMAIN rb.buff : rb.buff[i] \in Vals

\* C5: in any reachable state UpsertById(newest + 1, v) succeeds and produces
\* exactly the oldest, newest and slots Push(v) produces from that state.
C5_UpsertNextIsPush ==
    \A v \in InVals :
        \A r \in {UpsertById(rb, rb.newest + 1, v)} :
            /\ r.res = NoRes
            /\ r = Push(rb, v)

\* C5 witness: UpsertById(newest + 1, v) has just run on a full buffer and
\* evicted the oldest ID.
C5_Witness ==
    /\ last.op = "UpsertById"
    /\ last.id = last.newest0 + 1
    /\ last.res = NoRes
    /\ last.val \in Vals
    /\ rb.newest = last.id
    /\ rb.oldest > 0

\* C6: in any reachable state UpsertById(id, v) with id > newest + 1 succeeds,
\* leaves newest = id and GetById(id) = v, and every gap ID between the old
\* newest and id that is still live reads back, through GetById, as the empty
\* placeholder without error; it keeps doing so until it is itself upserted
\* or evicted (gaps holds exactly the gap IDs neither upserted nor evicted).
C6_GapFill ==
    /\ \A id \in IdArgs, v \in InVals :
         id > rb.newest + 1 =>
            \A r \in {UpsertById(rb, id, v)} :
                /\ r.res = NoRes
                /\ r.rb.newest = id
                /\ GetById(r.rb, id) = Ok(v)
                /\ \A g \in (rb.newest + 1)..(id - 1) :
                     g >= r.rb.oldest => GetById(r.rb, g) = Ok(Nil)
    /\ \A g \in gaps : GetById(rb, g) = Ok(Nil)

\* C6 witness: a gap ID filled by an earlier UpsertById is still live after a
\* later Push, in a slot that held a value before the fill.
C6_Witness ==
    /\ last.op = "Push"
    /\ gaps # {}
    /\ \E g \in gaps : g >= rb.count /\ g < rb.newest

\* C7: a successful UpsertById(id, v) changes GetById(j) for no ID j # id live
\* both before and after the call; and when oldest <= id <= newest it
\* overwrites the slot of id in place, oldest and newest unchanged.
C7_UpsertFrame ==
    \A id \in IdArgs, v \in InVals :
        \A r \in {UpsertById(rb, id, v)} :
            (r.res.err = NoErr /\ ~r.res.panic) =>
                /\ \A j \in IdArgs \ {id} :
                     (Live(rb, j) /\ Live(r.rb, j)) =>
                        GetById(r.rb, j) = GetById(rb, j)
                /\ Live(rb, id) =>
                     r.rb = [rb EXCEPT !.buff[GoMod(id, rb.count)] = v]

\* C7 witness: an in-place UpsertById of a live ID older than newest, on a
\* wrapped buffer that retains other IDs.
C7_Witness ==
    /\ last.op = "UpsertById"
    /\ last.res = NoRes
    /\ last.id < last.newest0
    /\ last.val \in Vals
    /\ rb.oldest > 0
    /\ Retained(rb) >= 3

\* C8: Get returns the value stored for ID newest when the buffer is not
\* empty, and returns the empty value, without crashing, when nothing was ever
\* pushed (newest = -1 < oldest), for every capacity >= 1; it changes neither
\* oldest, newest nor any slot.
C8_GetNewestOrEmpty ==
    last.op = "Get" =>
        /\ ~last.res.panic
        /\ last.res.err = NoErr
        /\ rb.newest >= rb.oldest => Ok(last.res.val) = GetById(rb, rb.newest)
        /\ rb.newest < rb.oldest => last.res.val = Nil
        /\ rb.newest = last.newest0

\* C9: in any reachable state and for every id, GetById(id) fails as too old
\* exactly when id < oldest, fails as too new exactly when id > newest, and
\* otherwise succeeds with the content of slot id mod capacity.
C9_GetByIdResult ==
    \A id \in IdArgs :
        \A r \in {GetById(rb, id)} :
            /\ ~r.panic
            /\ r.err = IdTooOld <=> id < rb.oldest
            /\ r.err = IdTooNew <=> id > rb.newest
            /\ Live(rb, id) => r = Ok(rb.buff[id % rb.count])

\* C9, all of it: the results above in every state, and no GetById call
\* changes the buffer.
C9_GetById ==
    /\ []C9_GetByIdResult
    /\ [][last'.op = "GetById" => rb' = rb]_vars

\* C9 witness: GetById has just returned a value from a wrapped buffer whose
\* slot index differs from the ID asked for.
C9_Witness ==
    /\ last.op = "GetById"
    /\ last.res.err = NoErr
    /\ last.res.val \in Vals
    /\ last.id >= rb.count
    /\ rb.oldest > 0

\* C10: in any reachable state GetNewerById(id), with any id < oldest clamped
\* to oldest - 1 and id <= newest after that, returns a list of length
\* newest - id whose k-th element is GetById(id + k), the values of the IDs
\* (id, newest] in increasing order; GetNewerById(oldest - 1) returns all
\* newest - oldest + 1 retained values.
C10_GetNewerById ==
    /\ \A id0 \in IdArgs :
         \A id \in {IF id0 < rb.oldest THEN rb.oldest - 1 ELSE id0},
            r \in {GetNewerById(rb, id0)} :
             id <= rb.newest =>
                /\ r.err = NoErr
                /\ ~r.panic
                /\ Len(r.list) = rb.newest - id
                /\ \A k \in 1..(rb.newest - id) :
                     Ok(r.list[k]) = GetById(rb, id + k)
    /\ Len(GetNewerById(rb, rb.oldest - 1).list) = Retained(rb)

\* C10 witness: GetNewerById of an evicted ID has just returned every value a
\* full, wrapped buffer retains.
C10_Witness ==
    /\ last.op = "GetNewerById"
    /\ last.id >= 0
    /\ last.id < rb.oldest - 1
    /\ last.res.err = NoErr
    /\ Len(last.res.list) = rb.count
    /\ \E k \in 1..Len(last.res.list) : last.res.list[k] \in Vals

\* C11: in any reachable state, the empty buffer included, GetNewerById(newest)
\* returns an empty list with no error, GetNewerById(id) fails as requested ID
\* too new for every id >= newest + 1, and no id below oldest yields an error.
C11_GetNewerByIdEdges ==
    /\ GetNewerById(rb, rb.newest) = NoRes
    /\ \A id \in IdArgs :
         \A r \in {GetNewerById(rb, id)} :
            /\ ~r.panic
            /\ id >= rb.newest + 1 => r.err = RequestedIdTooNew
            /\ id < rb.oldest => r.err = NoErr

\* C11 witness: GetNewerById(newest) has just returned the empty list on a
\* buffer that retains values.
C11_Witness ==
    /\ last.op = "GetNewerById"
    /\ last.id = rb.newest
    /\ last.res = NoRes
    /\ rb.oldest > 0
    /\ Retained(rb) >= 2

\* C15: across every step, of any operation, successful or failing, oldest
\* and newest never decrease; so an ID once below oldest stays there: GetById
\* fails for it as too old and UpsertById as stale in every later state.
C15_StepMonotone ==
    /\ rb'.oldest >= rb.oldest
    /\ rb'.newest >= rb.newest
    /\ \A id \in IdArgs :
         id < rb.oldest =>
            /\ GetById(rb', id).err = IdTooOld
            /\ \A v \in InVals : UpsertById(rb', id, v).res.err = StaleId

C15_CursorsNeverDecrease == [][C15_StepMonotone]_vars

\* C15 witness: an ID that was stored and then evicted has just been refused
\* by GetById as too old.
C15_Witness ==
    /\ last.op = "GetById"
    /\ last.id >= 0
    /\ last.id < rb.oldest
    /\ last.res.err = IdTooOld

\* C16: GetByIndex(i) fails exactly for i < 0 or i >= capacity; for every i in
\* [0, capacity) it succeeds with the raw content of slot i, whether or not an
\* ID is live there.
C16_GetByIndexResult ==
    \A i \in -2..(rb.count + 1) :
        \A r \in {GetByIndex(rb, i)} :
            /\ ~r.panic
            /\ r.err \in {NoErr, IndexOutOfBounds}
            /\ r.err = IndexOutOfBounds <=> (i < 0 \/ i >= rb.count)
            /\ (0 <= i /\ i < rb.count) => r = Ok(rb.buff[i])

\* C16, all of it: the results above in every state, and no GetByIndex call
\* changes the buffer.
C16_GetByIndex ==
    /\ []C16_GetByIndexResult
    /\ [][last'.op = "GetByIndex" => rb' = rb]_vars

\* C16 witness: GetByIndex has just succeeded on a slot no live ID maps to
\* (GetById of the same number fails as too new), in a buffer holding values.
C16_Witness ==
    /\ last.op = "GetByIndex"
    /\ last.res.err = NoErr
    /\ last.id > rb.newest
    /\ rb.newest >= 1
    /\ GetById(rb, last.id).err = IdTooNew

\* C17: the error GetById returns for id < oldest carries the requested id and
\* the current oldest bound, and the error for id > newest carries the
\* requested id and the current newest bound.
C17_ErrorCarriesItsBound ==
    last.op = "GetById" =>
        /\ last.res.err = IdTooOld => last.res.eargs = <<last.id, rb.oldest>>
        /\ last.res.err = IdTooNew => last.res.eargs = <<last.id, rb.newest>>

\* C18: in every reachable state and for every live ID i, GetById(i) returns
\* the value most recently given to ID i itself by Push or UpsertById (the
\* empty placeholder if i was only gap-filled), never a value written for
\* another ID that shares slot i mod capacity.
C18_LiveIdReadsOwnValue ==
    \A i \in Ids : Live(rb, i) => GetById(rb, i) = Ok(assigned[i])

\* C18 witness: a wrapped buffer whose slots were all owned by earlier IDs,
\* holding a pushed value, a gap and an upserted value.
C18_Witness ==
    /\ rb.oldest >= rb.count
    /\ gaps # {}
    /\ \E i, j \in Ids :
         /\ Live(rb, i) /\ Live(rb, j)
         /\ assigned[i] = "A" /\ assigned[j] = "B"

\* C19: in every reachable state oldest = max(0, newest - capacity + 1), after
\* any mix of Push and UpsertById calls, upserts that jump more than capacity
\* IDs ahead included.
C19_OldestFromNewest ==
    rb.oldest = IF rb.newest - rb.count + 1 > 0
                THEN rb.newest - rb.count + 1 ELSE 0

\* C19 witness: an UpsertById has just jumped more than capacity IDs ahead.
C19_Witness ==
    /\ last.op = "UpsertById"
    /\ last.res = NoRes
    /\ last.newest0 >= 0
    /\ last.id > last.newest0 + rb.count
    /\ rb.newest = last.id

\* C14: constructing a buffer with capacity <= 0 fails at construction time:
\* NewBuff returns no usable-looking buffer whose failure is left to a later
\* Push, Get or UpsertById.
C14_NonPositiveCapacityRejected ==
    rb.count <= 0 => (last.op = "NewBuff" /\ last.res.panic)

\* C12: under any interleaving of concurrent readers with a writer running
\* UpsertById that gap-fills several IDs, no reader observes an intermediate
\* state: every read result is the result on a complete state, the one before
\* the upsert or the one after it (at is the buffer as the last completed
\* write left it when the read ran).
C12_ReadsSeeCommittedState ==
    \A t \in Readers :
        th[t].pc = "RUnlock" =>
            th[t].res = ReadOp(th[t].at, th[t].op, th[t].id)

\* C12 witness: while one writer waits for the readers to leave, two readers
\* hold the read lock after an UpsertById that filled a gap; one of them has
\* read the gap and the upserted value through GetNewerById.
C12_Witness ==
    /\ th["r1"].pc = "RUnlock"
    /\ th["r1"].op = "GetNewerById"
    /\ th["r1"].res.list = <<Nil, "A">>
    /\ th["r2"].pc = "RUnlock"
    /\ \E w \in Writers : th[w].pc = "LockWait"

\* C13: every public operation releases the lock on every exit path, error
\* returns included, and never takes the lock again while holding it; so with
\* any finite set of concurrent callers no deadlocked state is reachable and,
\* under fair scheduling, every started call eventually returns.
Holds(t) == mux.w = t \/ t \in mux.r \/ t \in mux.rwait

C13_LockDiscipline ==
    \A t \in Threads :
        /\ th[t].pc \in {"idle", "panicked"} => ~Holds(t)
        /\ th[t].pc \in {"Lock", "RLock"} => ~Holds(t)

C13_NoDeadlock ==
    (~CCrashed /\ \E t \in Threads : th[t].pc # "idle") =>
        \E t \in Threads : ENABLED (Progress(t) \/ Lock(t))

C13_EveryCallReturns ==
    /\ []C13_LockDiscipline
    /\ []C13_NoDeadlock
    /\ \A t \in Threads : (th[t].pc # "idle") ~> (th[t].pc = "idle")

\* C20: concurrent Push calls are serialized without lost updates: when K
\* callers each run one Push concurrently from a state with newest = n, after
\* all have returned newest = n + K, each pushed value got its own ID in
\* n+1..n+K, and every such ID still live reads back that caller's value.
AllReturned == \A t \in Writers : th[t].pc = "idle" /\ th[t].got # -1

C20_ConcurrentPushes ==
    (n0 # NoBatch /\ AllReturned) =>
        /\ rb.newest = n0[1] + K
        /\ {th[t].got : t \in Writers} = (n0[1] + 1)..(n0[1] + K)
        /\ \A t \in Writers :
             Live(rb, th[t].got) => GetById(rb, th[t].got) = Ok(th[t].val)

\* C20 witness: both pushers have returned on a buffer of capacity 2 that
\* already held IDs 0 and 1; w2 got in first.
C20_Witness ==
    /\ AllReturned
    /\ rb.count = 2
    /\ n0 = <<1>>
    /\ th["w2"].got = 2
    /\ th["w1"].got = 3

==========================================================================
